---- MODULE Spec2Model ----
(***************************************************************************)
(* Model of src/causica/datasets/causica_dataset_format.py: the decoding   *)
(* of a flat numeric matrix plus variable metadata into structured,        *)
(* one-hot expanded records, and the reconstruction of intervention and    *)
(* counterfactual records from a JSON experiment descriptor.               *)
(*                                                                         *)
(* Numbers: a data value is an integer count of ticks of 1e-8, so that     *)
(* torch.allclose's absolute tolerance (1e-8) is one tick and the value    *)
(* 1.0 is One ticks.  All values are non-negative.                         *)
(* Optional values (JSON null / missing key): <<>> is None, <<x>> is x.    *)
(* A raised exception is a record whose field raised names its type;       *)
(* raised = "none" is a normal return.                                     *)
(***************************************************************************)
EXTENDS Integers, Sequences, FiniteSets, TLC

VARIABLES
    call,                \* the entry point being executed
    pc,                  \* "start" | "loop" | "done"
    variables_list,      \* metadata["variables"]
    data,                \* the flat matrix (arr / data argument)
    base_data,           \* _to_counterfactual's base_data argument
    intervention_nodes,  \* argument of _to_intervention / _to_counterfactual
    condition_nodes,     \* argument of _to_intervention
    json_object,         \* [columns_to_nodes, environments iterated so far]
    intervened_column_to_group_name,   \* the resolver's dict
    interventions_list,  \* the loop's accumulator (interventions_list / cf_list)
    interv_data,         \* local: the slicer's output before expansion
    categorical_sizes,   \* local: result of _get_categorical_sizes
    one_hot_calls,       \* the <<record, sizes>> pairs handed to convert_one_hot
    ret                  \* what the call returned or raised

vars == <<call, pc, variables_list, data, base_data, intervention_nodes,
          condition_nodes, json_object, intervened_column_to_group_name,
          interventions_list, interv_data, categorical_sizes, one_hot_calls, ret>>

(***************************************************************************)
(* Bounds of the model.                                                    *)
(***************************************************************************)
MaxVars == 3        \* longest descriptor list
MaxRows == 2        \* most rows of a data matrix
MaxEnvs == 2        \* most environments of a descriptor

One == 10^8         \* the value 1.0, in ticks of 1e-8

(***************************************************************************)
(* Generic helpers.                                                        *)
(***************************************************************************)
None == <<>>
Some(x) == <<x>>
Range(s) == {s[i] : i \in DOMAIN s}
Abs(x) == IF x < 0 THEN -x ELSE x
Min(x, y) == IF x <= y THEN x ELSE y
EmptyDict == [k \in {} |-> 0]
NoError == "none"
Raise(kind) == [raised |-> kind, value |-> None]
Return(v) == [raised |-> NoError, value |-> v]

RECURSIVE SumSeq(_)
SumSeq(s) == IF s = <<>> THEN 0 ELSE s[1] + SumSeq(Tail(s))

(***************************************************************************)
(* Numeric conversions.                                                    *)
(***************************************************************************)
\* DTYPE_MAP of causica.datasets.variable_types: the numeric type of a tag.
DTYPE_MAP(type) ==
    CASE type = "continuous"  -> "float32"
      [] type = "categorical" -> "int32"
      [] type = "binary"      -> "int32"

\* Spacing of float32 values around v: 24 significant bits.
RECURSIVE Ulp(_)
Ulp(v) == IF v < 2^24 THEN 1 ELSE 2 * Ulp(v \div 2)

\* torch.Tensor(ndarray): float64 to float32, round to nearest, ties to even.
RoundF32(v) ==
    LET u == Ulp(v)
        r == v % u
        lo == v - r
    IN  IF 2 * r < u THEN lo
        ELSE IF 2 * r > u THEN lo + u
        ELSE IF (lo \div u) % 2 = 0 THEN lo ELSE lo + u

\* .to(dtype=...): an integer dtype truncates the fraction.
Cast(v, dtype) ==
    IF dtype = "float32" THEN RoundF32(v)
    ELSE (RoundF32(v) \div One) * One

ATol == 1           \* torch.allclose atol = 1e-8, in ticks
RTolInv == 100000   \* torch.allclose rtol = 1e-5, as 1 / rtol

\* torch.isclose(input, other): |input - other| <= atol + rtol * |other|
IsClose(input, other) == Abs(input - other) <= ATol + (Abs(other) \div RTolInv)

(***************************************************************************)
(* Data values.                                                            *)
(* A matrix is [nrows, ncols, rows]; a TensorDict is                       *)
(* [raised, batch_size, keys, val]: keys in insertion order, val maps a    *)
(* key to a field [dtype, start, stop, rows], where [start, stop) is the   *)
(* column range of the flat matrix the field was sliced from.              *)
(***************************************************************************)
Matrix(rs, nc) == [nrows |-> Len(rs), ncols |-> nc, rows |-> rs]

TensorDict(keys, val, batch) ==
    [raised |-> NoError, batch_size |-> batch, keys |-> keys, val |-> val]
RaisedTensorDict(kind) ==
    [raised |-> kind, batch_size |-> <<>>, keys |-> <<>>, val |-> EmptyDict]
Width(field) == IF field.rows = <<>> THEN field.stop - field.start
                ELSE Len(field.rows[1])

GroupNames(vl) == [i \in DOMAIN vl |-> vl[i].group_name]

\* Counter(names).keys(): distinct names in first-occurrence order.
RECURSIVE CounterKeys(_)
CounterKeys(names) ==
    IF names = <<>> THEN <<>>
    ELSE LET init == CounterKeys(SubSeq(names, 1, Len(names) - 1))
             last == names[Len(names)]
         IN  IF last \in Range(init) THEN init ELSE Append(init, last)

\* Counter(names)[key]
CounterCount(names, key) == Cardinality({i \in DOMAIN names : names[i] = key})

(***************************************************************************)
(* tensordict_from_variables_metadata                                      *)
(***************************************************************************)
\* dtypes = {item["group_name"]: DTYPE_MAP[item["type"]] for item in ...}:
\* a later item of the same group overwrites the entry of an earlier one.
dtypes_FirstWins(vl, key) ==
    LET idxs == {i \in DOMAIN vl : vl[i].group_name = key}
        first == CHOOSE i \in idxs : \A j \in idxs : i <= j
    IN  DTYPE_MAP(vl[first].type)

dtypes(vl, key) ==
    LET idxs == {i \in DOMAIN vl : vl[i].group_name = key}
        last == CHOOSE i \in idxs : \A j \in idxs : j <= i
    IN  DTYPE_MAP(vl[last].type)

\* curr_idx when the loop reaches the j-th key: the lengths consumed so far.
curr_idx_KeyPosition(keys, names, j) == j - 1

curr_idx(keys, names, j) ==
    SumSeq([i \in 1..(j - 1) |-> CounterCount(names, keys[i])])

\* The order in which sizes.items() yields the groups: Counter keeps the
\* insertion order, the order of first occurrence.
sizes_keys_Reversed(names) ==
    CounterKeys([i \in DOMAIN names |-> names[Len(names) + 1 - i]])

sizes_keys(names) == CounterKeys(names)

KeyIndex(keys, key) == CHOOSE j \in DOMAIN keys : keys[j] = key

\* torch.Tensor(data[:, curr_idx : curr_idx + length]).to(dtype=dtypes[key])
slice_cast(d, start, length, dt) ==
    [dtype |-> dt, start |-> start, stop |-> start + length,
     rows |-> [r \in 1..d.nrows |->
                 [c \in 1..length |-> Cast(d.rows[r][start + c], dt)]]]

\* The loop over sizes.items(), once the shape assertion has passed.
slice_columns(d, vl, names, keys) ==
    IF SumSeq([i \in DOMAIN keys |-> CounterCount(names, keys[i])]) # d.ncols
    THEN RaisedTensorDict("AssertionError")
    ELSE TensorDict(keys,
                    [k \in Range(keys) |->
                       slice_cast(d, curr_idx(keys, names, KeyIndex(keys, k)),
                                  CounterCount(names, k), dtypes(vl, k))],
                    <<d.nrows>>)

tensordict_from_variables_metadata(d, vl) ==
    slice_columns(d, vl, GroupNames(vl), sizes_keys(GroupNames(vl)))

(***************************************************************************)
(* _get_categorical_sizes, _intersect_dicts_left                           *)
(***************************************************************************)
\* One iteration of the loop over variables_list: acc is [raised, value].
categorical_sizes_item_Truthy(acc, item) ==
    IF acc.raised # NoError \/ item.type # "categorical" THEN acc
    ELSE IF item.upper # None /\ item.lower # None
              /\ item.upper[1] # 0 /\ item.lower[1] # 0
    THEN Return([k \in DOMAIN acc.value \cup {item.group_name} |->
                   IF k = item.group_name
                   THEN item.upper[1] - item.lower[1] + 1
                   ELSE acc.value[k]])
    ELSE IF item.upper = None /\ item.lower = None
    THEN Return([k \in DOMAIN acc.value \cup {item.group_name} |->
                   IF k = item.group_name THEN -1 ELSE acc.value[k]])
    ELSE Raise("AssertionError")

categorical_sizes_item(acc, item) ==
    IF acc.raised # NoError \/ item.type # "categorical" THEN acc
    ELSE IF item.upper # None /\ item.lower # None
    THEN Return([k \in DOMAIN acc.value \cup {item.group_name} |->
                   IF k = item.group_name
                   THEN item.upper[1] - item.lower[1] + 1
                   ELSE acc.value[k]])
    ELSE IF item.upper = None /\ item.lower = None
    THEN Return([k \in DOMAIN acc.value \cup {item.group_name} |->
                   IF k = item.group_name THEN -1 ELSE acc.value[k]])
    ELSE Raise("AssertionError")

RECURSIVE _get_categorical_sizes(_)
_get_categorical_sizes(vl) ==
    IF vl = <<>> THEN Return(EmptyDict)
    ELSE categorical_sizes_item(
             _get_categorical_sizes(SubSeq(vl, 1, Len(vl) - 1)), vl[Len(vl)])

_intersect_dicts_left_NoIntersection(dict_1, dict_2) == dict_1

_intersect_dicts_left(dict_1, dict_2) ==
    [key \in (DOMAIN dict_1) \cap (DOMAIN dict_2) |-> dict_1[key]]

(***************************************************************************)
(* convert_one_hot of causica.datasets.tensordict_utils and the record     *)
(* classes of causica.datasets.interventional_data.                        *)
(***************************************************************************)
OneHot(field, num_classes) ==
    [dtype |-> "int64", start |-> field.start, stop |-> field.stop,
     rows |-> [r \in DOMAIN field.rows |->
                 [j \in 1..num_classes |->
                    IF field.rows[r][1] \div One = j - 1 THEN One ELSE 0]]]

convert_one_hot(td, one_hot_sizes) ==
    IF ~ (DOMAIN one_hot_sizes \subseteq DOMAIN td.val)
    THEN RaisedTensorDict("KeyError")
    ELSE [td EXCEPT !.val =
            [k \in DOMAIN td.val |->
               IF k \in DOMAIN one_hot_sizes /\ one_hot_sizes[k] >= 0
               THEN OneHot(td.val[k], one_hot_sizes[k])
               ELSE td.val[k]]]

\* InterventionData(...).sampled_nodes / CounterfactualData(...).sampled_nodes
sampled_nodes(sampled_data) == DOMAIN sampled_data.val

InterventionData(intervention_values, intervention_data, condition_values) ==
    [intervention_values |-> intervention_values,
     intervention_data |-> intervention_data,
     condition_values |-> condition_values,
     sampled_nodes |-> sampled_nodes(intervention_data)]

CounterfactualData(intervention_values, counterfactual_data, factual_data) ==
    [intervention_values |-> intervention_values,
     counterfactual_data |-> counterfactual_data,
     factual_data |-> factual_data,
     sampled_nodes |-> sampled_nodes(counterfactual_data)]

(***************************************************************************)
(* _to_intervention, _to_counterfactual                                    *)
(* Both return a frame: the outcome (raised, value) and the locals         *)
(* interv_data, categorical_sizes and the arguments of the convert_one_hot *)
(* calls that were evaluated.                                              *)
(***************************************************************************)
Frame(outcome, td, sizes, calls) ==
    [raised |-> outcome.raised, value |-> outcome.value, interv_data |-> td,
     categorical_sizes |-> sizes, one_hot_calls |-> calls]

\* first_row = interv_data[0]
FirstRow(td) ==
    TensorDict(td.keys,
               [k \in DOMAIN td.val |-> [td.val[k] EXCEPT !.rows = <<td.val[k].rows[1]>>]],
               <<>>)

\* TensorDict({node_name: first_row[node_name] for node_name in nodes}, batch_size=tuple())
SelectNodes(first_row, nodes) ==
    TensorDict(CounterKeys(nodes), [k \in Range(nodes) |-> first_row.val[k]], <<>>)

\* torch.allclose(interv_data[node_name], first_row[node_name])
allclose(field, first) ==
    \A r \in DOMAIN field.rows : \A c \in DOMAIN field.rows[r] :
        IsClose(field.rows[r][c], first.rows[1][c])

\* assert all(torch.allclose(interv_data[n], first_row[n]) for n in nodes):
\* the nodes are visited in order; a node that is no key raises KeyError, a
\* node that is not constant ends all() and fails the assertion.
intervention_check_Skipped(td, nodes) ==
    IF Range(nodes) \subseteq DOMAIN td.val THEN NoError ELSE "KeyError"

intervention_check(td, nodes) ==
    LET Bad(i) == \/ nodes[i] \notin DOMAIN td.val
                  \/ ~ allclose(td.val[nodes[i]], FirstRow(td).val[nodes[i]])
    IN  IF \A i \in DOMAIN nodes : ~ Bad(i) THEN NoError
        ELSE IF nodes[CHOOSE i \in DOMAIN nodes :
                        Bad(i) /\ \A j \in 1..(i - 1) : ~ Bad(j)] \notin DOMAIN td.val
        THEN "KeyError"
        ELSE "AssertionError"

\* Evaluates convert_one_hot on each <<record, sizes>> pair in order; the
\* first that raises decides the outcome.
OneHotAll(calls) == [i \in DOMAIN calls |-> convert_one_hot(calls[i][1], calls[i][2])]
FirstRaised(tds) ==
    IF \A i \in DOMAIN tds : tds[i].raised = NoError THEN NoError
    ELSE tds[CHOOSE i \in DOMAIN tds :
                 /\ tds[i].raised # NoError
                 /\ \A j \in 1..(i - 1) : tds[j].raised = NoError].raised

\* The return statement: the record class applied to the three expanded
\* records.
build_record(cls, td, sizes, calls, hot) ==
    IF FirstRaised(hot) # NoError
    THEN Frame(Raise(FirstRaised(hot)), td, sizes, calls)
    ELSE IF cls = "InterventionData"
    THEN Frame(Return(InterventionData(hot[1], hot[2], hot[3])), td, sizes, calls)
    ELSE IF cls = "CounterfactualData"
    THEN Frame(Return(CounterfactualData(hot[1], hot[2], hot[3])), td, sizes, calls)
    ELSE Frame(Return(hot[1]), td, sizes, calls)

expand_record(cls, td, sizes, calls) == build_record(cls, td, sizes, calls, OneHotAll(calls))

\* _to_intervention from categorical_sizes = ... on: values is
\* intervention_values, other is condition_values.
intervention_expand(td, sizes, values, other) ==
    IF sizes.raised # NoError
    THEN Frame(Raise(sizes.raised), td, sizes, <<>>)
    ELSE expand_record("InterventionData", td, sizes,
                       << <<values, _intersect_dicts_left(sizes.value, values.val)>>,
                          <<td, _intersect_dicts_left(sizes.value, td.val)>>,
                          <<other, _intersect_dicts_left(sizes.value, other.val)>> >>)

\* _to_intervention from first_row = interv_data[0] on.
intervention_checked(td, inodes, cnodes, vl) ==
    IF td.raised # NoError
    THEN Frame(Raise(td.raised), td, Return(EmptyDict), <<>>)
    ELSE IF td.batch_size = <<0>>
    THEN Frame(Raise("IndexError"), td, Return(EmptyDict), <<>>)
    ELSE IF intervention_check(td, inodes) # NoError
    THEN Frame(Raise(intervention_check(td, inodes)), td, Return(EmptyDict), <<>>)
    ELSE IF ~ (Range(cnodes) \subseteq DOMAIN td.val)
    THEN Frame(Raise("KeyError"), td, Return(EmptyDict), <<>>)
    ELSE intervention_expand(td, _get_categorical_sizes(vl),
                             SelectNodes(FirstRow(td), inodes),
                             SelectNodes(FirstRow(td), cnodes))

_to_intervention(d, inodes, cnodes, vl) ==
    intervention_checked(tensordict_from_variables_metadata(d, vl), inodes, cnodes, vl)

\* _to_counterfactual from categorical_sizes = ... on.
counterfactual_expand(td, sizes, values, factual_data) ==
    IF sizes.raised # NoError
    THEN Frame(Raise(sizes.raised), td, sizes, <<>>)
    ELSE expand_record("CounterfactualData", td, sizes,
                       << <<values, _intersect_dicts_left(sizes.value, values.val)>>,
                          <<td, _intersect_dicts_left(sizes.value, td.val)>>,
                          <<factual_data,
                            _intersect_dicts_left(sizes.value, factual_data.val)>> >>)

\* _to_counterfactual from factual_data = ... on.
counterfactual_factual(td, factual_data, inodes, vl) ==
    IF factual_data.raised # NoError
    THEN Frame(Raise(factual_data.raised), td, Return(EmptyDict), <<>>)
    ELSE counterfactual_expand(td, _get_categorical_sizes(vl),
                               SelectNodes(FirstRow(td), inodes), factual_data)

\* _to_counterfactual from first_row = interv_data[0] on.
counterfactual_checked(td, base, inodes, vl) ==
    IF td.raised # NoError
    THEN Frame(Raise(td.raised), td, Return(EmptyDict), <<>>)
    ELSE IF td.batch_size = <<0>>
    THEN Frame(Raise("IndexError"), td, Return(EmptyDict), <<>>)
    ELSE IF intervention_check(td, inodes) # NoError
    THEN Frame(Raise(intervention_check(td, inodes)), td, Return(EmptyDict), <<>>)
    ELSE counterfactual_factual(td, tensordict_from_variables_metadata(base, vl),
                                inodes, vl)

_to_counterfactual(d, base, inodes, vl) ==
    counterfactual_checked(tensordict_from_variables_metadata(d, vl), base, inodes, vl)

\* load_data for DataEnum.TRAIN / DataEnum.TEST, from the call of
\* tensordict_from_variables_metadata on.
train_expand(sizes, td) ==
    IF td.raised # NoError
    THEN Frame(Raise(td.raised), td, sizes, <<>>)
    ELSE expand_record("TensorDict", td, sizes, << <<td, sizes.value>> >>)

train_sizes(arr, vl, sizes) ==
    IF sizes.raised # NoError
    THEN Frame(Raise(sizes.raised), RaisedTensorDict(NoError), sizes, <<>>)
    ELSE train_expand(sizes, tensordict_from_variables_metadata(arr, vl))

load_data_train(arr, vl) == train_sizes(arr, vl, _get_categorical_sizes(vl))

(***************************************************************************)
(* _load_interventions, _load_counterfactuals                              *)
(***************************************************************************)
\* dict(zip(columns_to_nodes, names)): zip stops at the shorter sequence and
\* dict keeps the last value of a repeated key.
column_to_group_name_OffByOne(columns_to_nodes, names) ==
    LET n == Min(Len(columns_to_nodes), Len(names))
    IN  [c \in {columns_to_nodes[i] + 1 : i \in 1..n} |->
           names[CHOOSE i \in 1..n :
                   /\ columns_to_nodes[i] + 1 = c
                   /\ \A j \in 1..n : columns_to_nodes[j] + 1 = c => j <= i]]

column_to_group_name(columns_to_nodes, names) ==
    LET n == Min(Len(columns_to_nodes), Len(names))
    IN  [c \in {columns_to_nodes[i] : i \in 1..n} |->
           names[CHOOSE i \in 1..n :
                   /\ columns_to_nodes[i] = c
                   /\ \A j \in 1..n : columns_to_nodes[j] = c => j <= i]]

\* [intervened_column_to_group_name[idx] for idx in idxs] raises KeyError
\* when some idx is no key of the dict.
Resolvable(map, idxs) == Range(idxs) \subseteq DOMAIN map
Resolve(map, idxs) == [i \in DOMAIN idxs |-> map[idxs[i]]]

\* effect_nodes = set(map[idx] for idx in effect_idxs), defaulting to the
\* record's sampled_nodes when that set is empty.
effect_nodes_NoDefault(map, effect_idxs, record) ==
    {map[effect_idxs[i]] : i \in DOMAIN effect_idxs}

effect_nodes(map, effect_idxs, record) ==
    LET resolved == {map[effect_idxs[i]] : i \in DOMAIN effect_idxs}
    IN  IF resolved = {} THEN record.sampled_nodes ELSE resolved

\* A frame's outcome, with the value wrapped as Some(value).
RaisedOrSome(frame) ==
    IF frame.raised # NoError THEN Raise(frame.raised) ELSE Return(Some(frame.value))

\* reference = _to_intervention(...) after the check of reference_data:
\* _load_interventions raises RuntimeError when the environment has none.
intervention_reference(reference_data, inodes, cnodes, vl) ==
    IF reference_data = None THEN Raise("RuntimeError")
    ELSE RaisedOrSome(_to_intervention(reference_data[1], inodes, cnodes, vl))

\* _load_counterfactuals: reference = None when the environment has none.
counterfactual_reference_Required(reference_data, factual_data, inodes, vl) ==
    IF reference_data = None THEN Raise("RuntimeError")
    ELSE RaisedOrSome(_to_counterfactual(reference_data[1], factual_data, inodes, vl))

counterfactual_reference(reference_data, factual_data, inodes, vl) ==
    IF reference_data = None THEN Return(None)
    ELSE RaisedOrSome(_to_counterfactual(reference_data[1], factual_data, inodes, vl))

\* The end of a loop body: effect_nodes and the tuple to append.
body_effects(map, effect_idxs, intervention, reference) ==
    IF ~ Resolvable(map, effect_idxs)
    THEN Raise("KeyError")
    ELSE Return(<<intervention, reference, effect_nodes(map, effect_idxs, intervention)>>)

\* A loop body after the intervention record is built.
body_records(map, effect_idxs, intervention, reference) ==
    IF intervention.raised # NoError
    THEN Raise(intervention.raised)
    ELSE IF reference.raised # NoError
    THEN Raise(reference.raised)
    ELSE body_effects(map, effect_idxs, intervention.value, reference.value)

\* The loop body of _load_interventions once the node lists are resolved.
\* The reference is built only after the intervention record.
interventions_resolved(map, environment, vl, inodes, cnodes) ==
    body_records(map, environment.effect_idxs,
                 _to_intervention(environment.test_data, inodes, cnodes, vl),
                 intervention_reference(environment.reference_data, inodes, cnodes, vl))

\* The body of the loop of _load_interventions for one environment: the
\* tuple it appends, or the exception it raises.  The second slot of the
\* tuple is Some(reference).
interventions_body(map, environment, vl) ==
    IF /\ environment.conditioning_idxs # None
       /\ ~ Resolvable(map, environment.conditioning_idxs[1])
    THEN Raise("KeyError")
    ELSE IF ~ Resolvable(map, environment.intervention_idxs)
    THEN Raise("KeyError")
    ELSE interventions_resolved(map, environment, vl,
                                Resolve(map, environment.intervention_idxs),
                                IF environment.conditioning_idxs = None THEN <<>>
                                ELSE Resolve(map, environment.conditioning_idxs[1]))

counterfactuals_resolved(map, environment, vl, inodes) ==
    body_records(map, environment.effect_idxs,
                 _to_counterfactual(environment.test_data,
                                    environment.conditioning_values, inodes, vl),
                 counterfactual_reference(environment.reference_data,
                                          environment.conditioning_values, inodes, vl))

\* The body of the loop of _load_counterfactuals for one environment.  The
\* second slot of the tuple is None or Some(reference).
counterfactuals_body(map, environment, vl) ==
    IF ~ Resolvable(map, environment.intervention_idxs)
    THEN Raise("KeyError")
    ELSE counterfactuals_resolved(map, environment, vl,
                                  Resolve(map, environment.intervention_idxs))

\* interventions_list.append(...) / cf_list.append(...)
list_append_Prepend(list, item) == <<item>> \o list

list_append(list, item) == Append(list, item)

(***************************************************************************)
(* Inputs.                                                                 *)
(***************************************************************************)
Descriptor(name, type, lower, upper) ==
    [group_name |-> name, type |-> type, lower |-> lower, upper |-> upper]

VarLists(menu) == UNION {[1..n -> menu] : n \in 1..MaxVars}

\* Descriptors of the bounds check: every presence pattern of lower / upper,
\* with 0 among the declared limits.
SizesDescriptors ==
    {Descriptor(name, b[1], b[2], b[3]) :
        name \in {"a", "b"},
        b \in {<<"continuous", None, None>>, <<"continuous", Some(0), None>>,
               <<"categorical", None, None>>, <<"categorical", Some(0), Some(2)>>,
               <<"categorical", Some(0), Some(0)>>, <<"categorical", Some(1), None>>,
               <<"categorical", None, Some(0)>>}}

RecordDescriptors ==
    {Descriptor("a", "continuous", None, None),
     Descriptor("a", "categorical", None, None),
     Descriptor("b", "continuous", None, None),
     Descriptor("b", "categorical", Some(0), Some(1))}

LoadDescriptors ==
    {Descriptor("a", "continuous", None, None),
     Descriptor("b", "categorical", Some(0), Some(1))}

\* The matrix of m rows and n columns whose cells are v, but for cell.
Constant(m, n, v) == Matrix([r \in 1..m |-> [c \in 1..n |-> v]], n)
Perturbed(m, n, v, r0, c0, w) ==
    Matrix([r \in 1..m |-> [c \in 1..n |-> IF r = r0 /\ c = c0 THEN w ELSE v]], n)

\* For a base value: one within allclose's tolerance of it (and equal to it
\* after the float32 rounding or the integer cast), and one far from it.
Others(v) == IF v = 0 THEN {1, One} ELSE {One + 1, 0}

\* Matrices of n columns: constant ones, and ones with a later row that
\* differs from the first row in one cell.
Matrices(n) ==
    {Constant(m, n, v) : m \in 1..MaxRows, v \in {0, One}}
    \cup UNION {{Perturbed(m, n, v, r, c, w) : r \in 2..m, c \in 1..n, w \in Others(v)} :
                   m \in 1..MaxRows, v \in {0, One}}

Iota(n) == [i \in 1..n |-> i - 1]

\* columns_to_nodes for a catalog of n descriptors: the identity list, the
\* lists one shorter and one longer, and a permutation.
ColumnsToNodes(n) == {Iota(m) : m \in {n - 1, n, n + 1}} \cup {<<1, 0>>}

NoMatrix == Constant(0, 0, 0)

Environment(cidx, iidx, eidx, test, ref, cond) ==
    [conditioning_idxs |-> cidx, intervention_idxs |-> iidx, effect_idxs |-> eidx,
     test_data |-> test, reference_data |-> ref, conditioning_values |-> cond]

\* The data of an environment: constant, or with a last row that differs
\* from the first in column 0.
Steady(n) == Constant(MaxRows, n, 0)
Varying(n) == Perturbed(MaxRows, n, 0, MaxRows, 1, One)

\* Environments of interventions.json: every combination of the index lists
\* and of the presence of the reference over constant data, and varying test
\* data with and without an intervention on its column.
InterventionEnvironments(n) ==
    {Environment(cidx, iidx, eidx, Steady(n), ref, NoMatrix) :
        cidx \in {None, Some(<<0>>)}, iidx \in {<<>>, <<0>>}, eidx \in {<<>>, <<1>>},
        ref \in {None, Some(Steady(n))}}
    \cup {Environment(None, iidx, <<>>, Varying(n), Some(Steady(n)), NoMatrix) :
             iidx \in {<<>>, <<0>>}}

\* Environments of counterfactuals.json, likewise.
CounterfactualEnvironments(n) ==
    {Environment(None, iidx, eidx, Steady(n), ref, Steady(n)) :
        iidx \in {<<>>, <<0>>}, eidx \in {<<>>, <<1>>}, ref \in {None, Some(Steady(n))}}
    \cup {Environment(None, iidx, <<>>, Varying(n), ref, Steady(n)) :
             iidx \in {<<>>, <<0>>}, ref \in {None, Some(Steady(n))}}

(***************************************************************************)
(* The calls.  A call starts at pc = "start" with its arguments in the     *)
(* variables and ends at pc = "done" with ret set.  The environments of a  *)
(* descriptor are drawn one by one as the loop reaches them;               *)
(* json_object.environments holds those iterated so far.                   *)
(***************************************************************************)
NoFrame == Frame(Return(None), RaisedTensorDict(NoError), Return(EmptyDict), <<>>)

InitCommon ==
    /\ pc = "start"
    /\ intervened_column_to_group_name = EmptyDict
    /\ interventions_list = <<>>
    /\ interv_data = NoFrame.interv_data
    /\ categorical_sizes = NoFrame.categorical_sizes
    /\ one_hot_calls = <<>>
    /\ ret = Return(None)

NoJson == [columns_to_nodes |-> <<>>, environments |-> <<>>]

\* _get_categorical_sizes on its own.
InitSizes ==
    /\ InitCommon
    /\ call = "_get_categorical_sizes"
    /\ variables_list \in VarLists(SizesDescriptors)
    /\ data = NoMatrix
    /\ base_data = NoMatrix
    /\ intervention_nodes = <<>>
    /\ condition_nodes = <<>>
    /\ json_object = NoJson

\* load_data(TRAIN / TEST), _to_intervention and _to_counterfactual.
InitRecord ==
    /\ InitCommon
    /\ variables_list \in VarLists(RecordDescriptors)
    /\ data \in Matrices(Len(variables_list))
                  \cup {Constant(1, Len(variables_list) + 1, 0)}
    /\ json_object = NoJson
    /\ \/ /\ call = "load_data"
          /\ base_data = NoMatrix
          /\ intervention_nodes = <<>>
          /\ condition_nodes = <<>>
       \/ /\ call = "_to_intervention"
          /\ base_data = NoMatrix
          /\ intervention_nodes \in {<<>>, <<"a">>, <<"b">>}
          /\ condition_nodes \in {<<>>, <<"b">>}
       \/ /\ call = "_to_counterfactual"
          /\ base_data \in {Steady(Len(variables_list)), Varying(Len(variables_list))}
          /\ intervention_nodes \in {<<>>, <<"a">>, <<"b">>}
          /\ condition_nodes = <<>>

\* _load_interventions and _load_counterfactuals.
InitLoad ==
    /\ InitCommon
    /\ call \in {"_load_interventions", "_load_counterfactuals"}
    /\ variables_list \in VarLists(LoadDescriptors)
    /\ data = NoMatrix
    /\ base_data = NoMatrix
    /\ intervention_nodes = <<>>
    /\ condition_nodes = <<>>
    /\ \E c2n \in ColumnsToNodes(Len(variables_list)) :
          json_object = [columns_to_nodes |-> c2n, environments |-> <<>>]

Inputs == <<call, variables_list, data, base_data, intervention_nodes, condition_nodes>>
Loader == <<json_object, intervened_column_to_group_name, interventions_list>>

Finish(frame) ==
    /\ pc' = "done"
    /\ interv_data' = frame.interv_data
    /\ categorical_sizes' = frame.categorical_sizes
    /\ one_hot_calls' = frame.one_hot_calls
    /\ ret' = [raised |-> frame.raised, value |-> frame.value]
    /\ UNCHANGED <<Inputs, Loader>>

GetCategoricalSizes ==
    /\ pc = "start" /\ call = "_get_categorical_sizes"
    /\ LET sizes == _get_categorical_sizes(variables_list)
       IN  Finish(Frame(sizes, NoFrame.interv_data, sizes, <<>>))

LoadDataTrain ==
    /\ pc = "start" /\ call = "load_data"
    /\ Finish(load_data_train(data, variables_list))

ToIntervention ==
    /\ pc = "start" /\ call = "_to_intervention"
    /\ Finish(_to_intervention(data, intervention_nodes, condition_nodes, variables_list))

ToCounterfactual ==
    /\ pc = "start" /\ call = "_to_counterfactual"
    /\ Finish(_to_counterfactual(data, base_data, intervention_nodes, variables_list))

\* Lines 118-127 and 173-182: the resolver's dict and the empty list.
BuildColumnMap ==
    /\ pc = "start" /\ call \in {"_load_interventions", "_load_counterfactuals"}
    /\ intervened_column_to_group_name' =
           column_to_group_name(json_object.columns_to_nodes, GroupNames(variables_list))
    /\ interventions_list' = <<>>
    /\ pc' = "loop"
    /\ UNCHANGED <<Inputs, json_object, interv_data, categorical_sizes, one_hot_calls, ret>>

\* One iteration of the loop: the tuple is appended, or the exception
\* leaves the call and the list is dropped.
Iterate(environment, outcome) ==
    /\ json_object' = [json_object EXCEPT !.environments = Append(@, environment)]
    /\ IF outcome.raised # NoError
       THEN /\ ret' = Raise(outcome.raised)
            /\ pc' = "done"
            /\ UNCHANGED interventions_list
       ELSE /\ interventions_list' = list_append(interventions_list, outcome.value)
            /\ UNCHANGED <<ret, pc>>
    /\ UNCHANGED <<Inputs, intervened_column_to_group_name, interv_data,
                   categorical_sizes, one_hot_calls>>

LoadInterventionsIterate ==
    /\ pc = "loop" /\ call = "_load_interventions"
    /\ Len(json_object.environments) < MaxEnvs
    /\ \E environment \in InterventionEnvironments(Len(variables_list)) :
          Iterate(environment,
                  interventions_body(intervened_column_to_group_name, environment,
                                     variables_list))

LoadCounterfactualsIterate ==
    /\ pc = "loop" /\ call = "_load_counterfactuals"
    /\ Len(json_object.environments) < MaxEnvs
    /\ \E environment \in CounterfactualEnvironments(Len(variables_list)) :
          Iterate(environment,
                  counterfactuals_body(intervened_column_to_group_name, environment,
                                       variables_list))

\* return interventions_list / return cf_list, once the environments are
\* exhausted.
LoadReturn ==
    /\ pc = "loop"
    /\ ret' = Return(interventions_list)
    /\ pc' = "done"
    /\ UNCHANGED <<Inputs, Loader, interv_data, categorical_sizes, one_hot_calls>>

NextSizes == GetCategoricalSizes
NextRecord == LoadDataTrain \/ ToIntervention \/ ToCounterfactual
NextLoad == BuildColumnMap \/ LoadInterventionsIterate \/ LoadCounterfactualsIterate
                \/ LoadReturn

SpecSizes == InitSizes /\ [][NextSizes]_vars
SpecRecord == InitRecord /\ [][NextRecord]_vars
SpecLoad == InitLoad /\ [][NextLoad]_vars

Init == InitSizes \/ InitRecord \/ InitLoad
Next == NextSizes \/ NextRecord \/ NextLoad
Spec == Init /\ [][Next]_vars

(***************************************************************************)
(* Properties.                                                             *)
(***************************************************************************)
Done == pc = "done"
Names == GroupNames(variables_list)
Groups == Range(Names)
FirstIndex(names, k) == CHOOSE i \in DOMAIN names : names[i] = k /\ \A j \in 1..(i - 1) : names[j] # k
LastIndex(names, k) == CHOOSE i \in DOMAIN names : names[i] = k /\ \A j \in (i + 1)..Len(names) : names[j] # k

\* The slicer ran in this call and its output is in interv_data.
Sliced ==
    /\ Done
    /\ call \in {"load_data", "_to_intervention", "_to_counterfactual"}
    /\ ~ (call = "load_data" /\ categorical_sizes.raised # NoError)

\* C1: when the matrix has one column per descriptor, the slicer returns one
\* field per distinct group_name, in first-occurrence order; the k-th group
\* holds the columns [start_k, start_k + width_k) of the matrix, where width_k
\* counts the descriptors of that name and start_k sums the widths before it,
\* and every field has the rows of the input.
C1_SliceContiguous ==
    (Sliced /\ data.ncols = Len(variables_list)) =>
        LET td == interv_data
        IN  /\ td.raised = NoError
            /\ Range(td.keys) = Groups
            /\ DOMAIN td.val = Groups
            /\ Len(td.keys) = Cardinality(Groups)
            /\ \A i, j \in DOMAIN td.keys :
                  i < j => FirstIndex(Names, td.keys[i]) < FirstIndex(Names, td.keys[j])
            /\ \A k \in DOMAIN td.keys :
                  LET f == td.val[td.keys[k]]
                      width == Cardinality({i \in DOMAIN Names : Names[i] = td.keys[k]})
                  IN  /\ f.start = Cardinality({i \in DOMAIN Names :
                                        \E m \in 1..(k - 1) : Names[i] = td.keys[m]})
                      /\ f.stop = f.start + width
                      /\ Len(f.rows) = data.nrows
                      /\ \A r \in DOMAIN f.rows :
                            /\ Len(f.rows[r]) = width
                            /\ \A c \in 1..width :
                                  f.rows[r][c] = Cast(data.rows[r][f.start + c], f.dtype)

\* A group named twice around another group: the first group is two columns
\* wide, the second starts at column 2, and the two rows differ.
C1_Witness ==
    /\ Sliced /\ data.ncols = Len(variables_list)
    /\ Len(Names) = 3 /\ Names[1] = Names[3] /\ Names[1] # Names[2]
    /\ interv_data.raised = NoError
    /\ interv_data.val[Names[1]].stop = 2
    /\ interv_data.val[Names[2]].start = 2
    /\ data.nrows = 2 /\ data.rows[1] # data.rows[2]

\* C7 as stated: a group's slice has the dtype of the first descriptor of
\* that name.
C7_FirstDescriptorDtype ==
    (Sliced /\ interv_data.raised = NoError) =>
        \A k \in Groups :
            interv_data.val[k].dtype = DTYPE_MAP(variables_list[FirstIndex(Names, k)].type)

\* C7 amended: a group's slice has the dtype of the last descriptor of that
\* name (the dict of dtypes keeps the last entry of a repeated key).
C7_LastDescriptorDtype ==
    (Sliced /\ interv_data.raised = NoError) =>
        \A k \in Groups :
            interv_data.val[k].dtype = DTYPE_MAP(variables_list[LastIndex(Names, k)].type)

\* A sliced group whose first and last descriptors declare types of different
\* dtypes.
C7_Witness ==
    /\ Sliced /\ interv_data.raised = NoError
    /\ \E k \in Groups :
          /\ DTYPE_MAP(variables_list[FirstIndex(Names, k)].type)
                # DTYPE_MAP(variables_list[LastIndex(Names, k)].type)
          /\ interv_data.val[k].dtype = "int32"

CategoricalItems == {i \in DOMAIN variables_list : variables_list[i].type = "categorical"}
ExactlyOneLimit(item) == (item.lower = None) # (item.upper = None)
DeclaredSize(item) == IF item.lower = None THEN -1 ELSE item.upper[1] - item.lower[1] + 1

\* C6: _get_categorical_sizes fails, returning no sizes, exactly when a
\* categorical descriptor declares one limit without the other; otherwise its
\* result has an entry for exactly the groups with a categorical descriptor:
\* upper - lower + 1 when both limits are declared (0 is a limit like any
\* other), -1 when neither is.  Where a group has several categorical
\* descriptors the last one decides.
C6_CategoricalSizes ==
    (Done /\ call = "_get_categorical_sizes") =>
        /\ (ret.raised # NoError) <=>
               (\E i \in CategoricalItems : ExactlyOneLimit(variables_list[i]))
        /\ ret.raised # NoError => ret.value = None
        /\ ret.raised = NoError =>
              /\ DOMAIN ret.value = {Names[i] : i \in CategoricalItems}
              /\ \A i \in CategoricalItems :
                    (\A j \in CategoricalItems : Names[j] = Names[i] => j <= i)
                        => ret.value[Names[i]] = DeclaredSize(variables_list[i])

\* A result with a size computed from a lower limit of 0, and a continuous
\* descriptor with a single limit that neither fails the call nor appears.
C6_Witness ==
    /\ Done /\ call = "_get_categorical_sizes" /\ ret.raised = NoError
    /\ Len(variables_list) = 2
    /\ variables_list[1].type = "continuous" /\ variables_list[1].lower = Some(0)
    /\ variables_list[2].lower = Some(0) /\ variables_list[2].upper = Some(2)
    /\ DOMAIN ret.value = {Names[2]}
    /\ ret.value[Names[2]] = 3

RecordCall == call \in {"_to_intervention", "_to_counterfactual"}

\* Some row of the matrix differs from the first row in a column of group g.
RowsDiffer(g) ==
    \E r \in 1..data.nrows : \E c \in (interv_data.val[g].start + 1)..interv_data.val[g].stop :
        data.rows[r][c] # data.rows[1][c]

\* Some row of group g, as cast by the slicer, is further from the first row
\* than the tolerance of torch.allclose.
RowsApart(g) ==
    LET f == interv_data.val[g]
    IN  \E r \in DOMAIN f.rows : \E c \in DOMAIN f.rows[r] :
            Abs(f.rows[r][c] - f.rows[1][c]) > ATol + (Abs(f.rows[1][c]) \div RTolInv)

\* The other reasons for which the two builders raise: a matrix whose column
\* count is not the number of descriptors, and a node that is no group.
WellShaped ==
    /\ data.ncols = Len(variables_list)
    /\ call = "_to_counterfactual" => base_data.ncols = Len(variables_list)
    /\ Range(intervention_nodes) \cup Range(condition_nodes) \subseteq Groups

\* C2 as stated: a row that differs from the first row in a column of an
\* intervened group makes the call fail.
C2_AnyDifferenceFails ==
    (Done /\ RecordCall /\ WellShaped
          /\ \E i \in DOMAIN intervention_nodes : RowsDiffer(intervention_nodes[i]))
        => ret.raised # NoError

\* C2 amended: the call fails when, after the cast to the group's dtype, a row
\* of an intervened group is further from the first row than the tolerance of
\* torch.allclose (|x - first| > atol + rtol * |first|); differences within the
\* tolerance or removed by the cast, and differences in groups that are not
\* intervened, do not make it fail.
C2_ConstantIntervention ==
    (Done /\ RecordCall /\ WellShaped) =>
        /\ (\E i \in DOMAIN intervention_nodes : RowsApart(intervention_nodes[i]))
              <=> ret.raised # NoError
        /\ ret.raised # NoError => ret.raised = "AssertionError" /\ ret.value = None

\* The call failed on a row of an intervened group that is apart from the
\* first row.
C2_Witness ==
    /\ Done /\ RecordCall /\ WellShaped
    /\ \E i \in DOMAIN intervention_nodes : RowsApart(intervention_nodes[i])
    /\ ret.raised = "AssertionError"

\* The call succeeded although a group that is not intervened has rows apart.
C2_WitnessOtherGroup ==
    /\ Done /\ RecordCall /\ WellShaped /\ ret.raised = NoError
    /\ intervention_nodes # <<>>
    /\ \E g \in Groups \ Range(intervention_nodes) : RowsApart(g)

\* The records handed to convert_one_hot and the records it returned, in the
\* order of the calls.
Expanded ==
    IF call = "_to_intervention"
    THEN <<ret.value.intervention_values, ret.value.intervention_data,
           ret.value.condition_values>>
    ELSE IF call = "_to_counterfactual"
    THEN <<ret.value.intervention_values, ret.value.counterfactual_data,
           ret.value.factual_data>>
    ELSE <<ret.value>>

\* The field of group k as the slicer produced it for the i-th record: the
\* whole batch, or its first row for the single-row records.
SlicedField(i, k) ==
    LET whole == IF call = "_to_counterfactual" /\ i = 3
                 THEN tensordict_from_variables_metadata(base_data, variables_list).val[k]
                 ELSE interv_data.val[k]
    IN  IF call = "load_data" \/ i = 2 \/ (call = "_to_counterfactual" /\ i = 3)
        THEN whole
        ELSE [whole EXCEPT !.rows = <<whole.rows[1]>>]

\* C8: the sizes handed to convert_one_hot for a record are the entries of
\* categorical_sizes whose key the record has, so never a key the record
\* lacks; in the returned records a group with a size >= 0 is as wide as its
\* size, and every other group (no size, or size -1) is the slicer's field
\* unchanged.
C8_CategoricalExpansion ==
    /\ \A i \in DOMAIN one_hot_calls :
          /\ DOMAIN one_hot_calls[i][2] \subseteq DOMAIN one_hot_calls[i][1].val
          /\ DOMAIN one_hot_calls[i][2]
                = DOMAIN categorical_sizes.value \cap DOMAIN one_hot_calls[i][1].val
          /\ \A k \in DOMAIN one_hot_calls[i][2] :
                one_hot_calls[i][2][k] = categorical_sizes.value[k]
    /\ (Sliced /\ ret.raised = NoError) =>
          /\ Len(one_hot_calls) = Len(Expanded)
          /\ \A i \in DOMAIN Expanded :
                /\ DOMAIN Expanded[i].val = DOMAIN one_hot_calls[i][1].val
                /\ \A k \in DOMAIN Expanded[i].val :
                      IF k \in DOMAIN categorical_sizes.value /\ categorical_sizes.value[k] >= 0
                      THEN /\ Width(Expanded[i].val[k]) = categorical_sizes.value[k]
                           /\ categorical_sizes.value[k]
                                 = DeclaredSize(variables_list[
                                       CHOOSE j \in CategoricalItems :
                                           /\ Names[j] = k
                                           /\ \A m \in CategoricalItems : Names[m] = k => m <= j])
                      ELSE Expanded[i].val[k] = SlicedField(i, k)

\* An intervention record whose intervention_values lack the sized group b:
\* b was expanded from one column to two in intervention_data, and group a,
\* of size -1, passed through.
C8_Witness ==
    /\ Done /\ call = "_to_intervention" /\ ret.raised = NoError
    /\ intervention_nodes = <<"a">>
    /\ DOMAIN categorical_sizes.value = {"a", "b"}
    /\ categorical_sizes.value["a"] = -1 /\ categorical_sizes.value["b"] = 2
    /\ DOMAIN one_hot_calls[1][2] = {"a"}
    /\ interv_data.val["b"].stop - interv_data.val["b"].start = 1
    /\ Width(ret.value.intervention_data.val["b"]) = 2
    /\ ret.value.intervention_data.val["a"] = interv_data.val["a"]

Loading == call \in {"_load_interventions", "_load_counterfactuals"}
Environments == json_object.environments
Map == intervened_column_to_group_name
Returned == Done /\ Loading /\ ret.raised = NoError

\* The batch record of a tuple's first slot.
SampledData(record) ==
    IF call = "_load_interventions" THEN record.intervention_data
    ELSE record.counterfactual_data

\* C3: in every returned tuple the effect set of an environment without
\* effect_idxs is the set of all group names of the environment's data record,
\* intervened and conditioned groups included; with effect_idxs it is the set
\* of the names the indices resolve to.
C3_EffectSetDefault ==
    Returned =>
        \A i \in DOMAIN ret.value :
            IF Environments[i].effect_idxs = <<>>
            THEN /\ ret.value[i][3] = DOMAIN SampledData(ret.value[i][1]).val
                 /\ ret.value[i][3] = Groups
            ELSE ret.value[i][3] = {Map[idx] : idx \in Range(Environments[i].effect_idxs)}

\* A returned tuple of an environment without effect_idxs that intervenes on
\* one of two groups: both groups are in its effect set.
C3_Witness ==
    /\ Returned
    /\ \E i \in DOMAIN ret.value :
          /\ Environments[i].effect_idxs = <<>>
          /\ Environments[i].intervention_idxs = <<0>>
          /\ Map[0] \in ret.value[i][3]
          /\ Cardinality(ret.value[i][3]) = 2

\* The indices an environment has resolved by the loader.
UsedIdxs(environment) ==
    Range(environment.intervention_idxs) \cup Range(environment.effect_idxs)
        \cup (IF call = "_load_interventions" /\ environment.conditioning_idxs # None
              THEN Range(environment.conditioning_idxs[1]) ELSE {})

\* The test data of the environment, alone, makes the loop body raise.
TestDataRaises(environment) ==
    \/ ~ (Range(environment.intervention_idxs) \subseteq DOMAIN Map)
    \/ \E r \in 1..environment.test_data.nrows : \E c \in 1..environment.test_data.ncols :
          /\ environment.test_data.rows[r][c] # environment.test_data.rows[1][c]
          /\ \E idx \in Range(environment.intervention_idxs) :
                Names[c] = Map[idx]

\* C4: _load_interventions raises, returning no list, as soon as it reaches an
\* environment without reference_data; _load_counterfactuals never raises for
\* the missing reference (a call that fails on such an environment fails on
\* its indices or its test data) and returns None as the reference of exactly
\* the environments that have none.
C4_MissingReference ==
    /\ (call = "_load_interventions"
            /\ \E i \in DOMAIN Environments : Environments[i].reference_data = None)
          => Done /\ ret.raised # NoError /\ ret.value = None
    /\ call = "_load_counterfactuals" =>
          /\ ret.raised # "RuntimeError"
          /\ Returned =>
                \A i \in DOMAIN ret.value :
                    (ret.value[i][2] = None) <=> (Environments[i].reference_data = None)
          /\ (Done /\ ret.raised # NoError
                   /\ Environments[Len(Environments)].reference_data = None)
                => \/ TestDataRaises(Environments[Len(Environments)])
                   \/ ~ (UsedIdxs(Environments[Len(Environments)]) \subseteq DOMAIN Map)

\* _load_counterfactuals returned a tuple without reference for an
\* environment without reference_data.
C4_Witness ==
    /\ Returned /\ call = "_load_counterfactuals"
    /\ \E i \in DOMAIN ret.value :
          Environments[i].reference_data = None /\ ret.value[i][2] = None

\* _load_interventions raised RuntimeError on the second environment.
C4_WitnessInterventions ==
    /\ Done /\ call = "_load_interventions" /\ ret.raised = "RuntimeError"
    /\ Len(Environments) = 2 /\ Environments[2].reference_data = None

LengthMismatch == Len(json_object.columns_to_nodes) # Len(variables_list)

\* C5 as stated: a columns_to_nodes list whose length is not the catalog's
\* makes the loaders raise instead of returning records (here for a
\* descriptor with at least one environment).
C5_MismatchRaises ==
    (Done /\ Loading /\ LengthMismatch /\ Environments # <<>>) => ret.raised # NoError

\* C5 amended: a length mismatch raises nothing by itself: zip pairs the first
\* min(len) entries and the dict maps exactly those indices (a repeated index
\* keeps its last name).  An environment that uses an index without an entry
\* is fatal, as a KeyError; no IndexError is raised.
C5_UnmappedIndexFails ==
    Loading =>
        /\ pc # "start" =>
              LET c2n == json_object.columns_to_nodes
                  n == IF Len(c2n) <= Len(Names) THEN Len(c2n) ELSE Len(Names)
              IN  /\ DOMAIN Map = {c2n[i] : i \in 1..n}
                  /\ \A i \in 1..n :
                        (\A j \in (i + 1)..n : c2n[j] # c2n[i]) => Map[c2n[i]] = Names[i]
        /\ \A i \in DOMAIN Environments :
              ~ (UsedIdxs(Environments[i]) \subseteq DOMAIN Map)
                  => Done /\ ret.raised # NoError /\ ret.value = None
        /\ ret.raised = "KeyError" =>
              ~ (UsedIdxs(Environments[Len(Environments)]) \subseteq DOMAIN Map)
        /\ ret.raised # "IndexError"

\* With a columns_to_nodes list shorter than the catalog, an environment
\* whose effect index has no entry raised KeyError.
C5_Witness ==
    /\ Done /\ Loading /\ ret.raised = "KeyError"
    /\ Len(json_object.columns_to_nodes) < Len(variables_list)
    /\ Environments[Len(Environments)].effect_idxs = <<1>>
    /\ 1 \notin DOMAIN Map

\* The tuple was built from the environment: its batch record holds the
\* environment's test data (cast, and one-hot encoded where the group has a
\* size), its reference is there when the environment has one, and its effect
\* set follows the environment's effect_idxs.
BuiltFrom(tuple, environment) ==
    LET td == SampledData(tuple[1])
    IN  /\ \A k \in DOMAIN td.val :
              LET f == td.val[k]
              IN  /\ Len(f.rows) = environment.test_data.nrows
                  /\ \A r \in DOMAIN f.rows :
                        IF f.dtype = "int64"
                        THEN \A j \in DOMAIN f.rows[r] :
                                (f.rows[r][j] = One) <=>
                                    (Cast(environment.test_data.rows[r][f.start + 1], "int32")
                                        = (j - 1) * One)
                        ELSE \A c \in DOMAIN f.rows[r] :
                                f.rows[r][c]
                                    = Cast(environment.test_data.rows[r][f.start + c], f.dtype)
        /\ (tuple[2] = None) <=> (environment.reference_data = None)
        /\ tuple[3] = IF environment.effect_idxs = <<>> THEN DOMAIN td.val
                      ELSE {Map[idx] : idx \in Range(environment.effect_idxs)}
        /\ DOMAIN tuple[1].intervention_values.val
              = {Map[idx] : idx \in Range(environment.intervention_idxs)}

\* C9: a finished call has either raised and returned nothing, or returned a
\* list with one tuple per environment, the i-th built from the i-th
\* environment.
C9_AllOrNothing ==
    (Done /\ Loading) =>
        \/ ret.raised # NoError /\ ret.value = None
        \/ /\ ret.raised = NoError
           /\ Len(ret.value) = Len(Environments)
           /\ \A i \in DOMAIN ret.value : BuiltFrom(ret.value[i], Environments[i])

\* The call raised on the second environment after the first was
\* reconstructed and appended.
C9_Witness ==
    /\ Done /\ Loading /\ ret.raised # NoError /\ ret.value = None
    /\ Len(Environments) = 2 /\ Len(interventions_list) = 1

\* The call returned two tuples built from two different environments.
C9_WitnessOrder ==
    /\ Returned /\ Len(ret.value) = 2
    /\ Environments[1] # Environments[2]
    /\ ret.value[1] # ret.value[2]

\* Descriptors of one group are adjacent in the list.
Adjacent(names) ==
    \A i, j \in DOMAIN names :
        (i < j /\ names[i] = names[j]) => \A m \in i..j : names[m] = names[i]

\* C10: with the descriptors of each group adjacent and columns_to_nodes the
\* identity list, the name the resolver gives column c is the group whose
\* slice of the environment's data holds column c.
C10_ResolverAgreesWithSlicer ==
    (Loading /\ pc # "start" /\ Adjacent(Names)
             /\ json_object.columns_to_nodes = [i \in 1..Len(Names) |-> i - 1]) =>
        \A e \in DOMAIN Environments :
            LET td == tensordict_from_variables_metadata(Environments[e].test_data,
                                                         variables_list)
            IN  \A c \in 0..(Len(Names) - 1) :
                    /\ c \in DOMAIN Map
                    /\ \A k \in DOMAIN td.val :
                          (td.val[k].start <= c /\ c < td.val[k].stop) <=> (k = Map[c])

\* A catalog with a two-column group before a one-column group, the identity
\* list, and a returned tuple that intervenes on the group of column 0.
C10_Witness ==
    /\ Returned /\ Len(ret.value) >= 1
    /\ Len(Names) = 3 /\ Names[1] = Names[2] /\ Names[2] # Names[3]
    /\ json_object.columns_to_nodes = <<0, 1, 2>>
    /\ Map[1] = Names[1] /\ Map[2] = Names[3]
    /\ Environments[1].intervention_idxs = <<0>>
    /\ SampledData(ret.value[1][1]).val[Map[0]].stop = 2

====
